---- MODULE Spec2Model ----
(***************************************************************************)
(* A model of create_a_1a2b_game.py: the 1A2B (Bulls and Cows) game.       *)
(*                                                                         *)
(* A Python str is modelled as a sequence of characters, each character a  *)
(* TLA+ string: "1234" is <<"1","2","3","4">>.  Characters outside ASCII   *)
(* are written by their Unicode names.                                     *)
(***************************************************************************)
EXTENDS Integers, Sequences, FiniteSets, TLC

(***************************************************************************)
(* Characters and the library predicates the program applies to them.      *)
(***************************************************************************)

\* str(d) for d in range(10): the decimal rendering of one sampled digit.
DigitChars == <<"0", "1", "2", "3", "4", "5", "6", "7", "8", "9">>

str(d) == DigitChars[d + 1]

AsciiDigits == {DigitChars[i] : i \in 1..Len(DigitChars)}

\* Unicode decimal numbers (category Nd): what \d of the field pattern
\* matches.  The ASCII digits and one other representative are modelled.
DecimalDigits == AsciiDigits \cup {"ARABIC-INDIC DIGIT ONE"}

\* The characters str.isdigit accepts: the decimal numbers and the other
\* characters with a digit value, such as superscripts.
Digits == DecimalDigits \cup {"SUPERSCRIPT TWO"}

len(s) == Len(s)

\* set(value): the distinct characters of a string.
set(s) == {s[i] : i \in 1..Len(s)}

\* str.isdigit: every character is a digit and there is at least one.
isdigit(s) == Len(s) > 0 /\ \A i \in 1..Len(s) : s[i] \in Digits


(***************************************************************************)
(* Program constants.                                                      *)
(***************************************************************************)

\* random.sample(range(10), 4)
RangeStop == 10

SampleSize == 4

\* len(secret_number) != 4 or len(guess) != 4
RequiredLen == 4

\* Field(min_length=4, max_length=4, pattern=r"^\d{4}$")
FieldLen == 4

\* Field(ge=0, le=4)
ScoreMax == 4

\* len(guess) != 4 ... len(set(guess)) != 4
TerminalLen == 4

\* if a == 4
WinningA == 4

(***************************************************************************)
(* generate_secret_number                                                  *)
(***************************************************************************)

\* A variant that draws with replacement, as random.choices does.
random_sample_Replacing(population, k) == [1..k -> population]

\* random.sample(population, k): every ordering of k distinct elements may
\* be drawn.
random_sample(population, k) ==
    {q \in [1..k -> population] : \A i, j \in 1..k : i # j => q[i] # q[j]}

\* "".join(map(str, digits))
join_map_str(digits) == [i \in 1..Len(digits) |-> str(digits[i])]

\* The values generate_secret_number can return.
generate_secret_number ==
    {join_map_str(digits) : digits \in random_sample(0..(RangeStop - 1), SampleSize)}

(***************************************************************************)
(* evaluate_guess                                                          *)
(***************************************************************************)

\* A variant of the guard with "and" where the code has "or".
LengthGuardRaises_And(secret_number, guess) ==
    len(secret_number) # RequiredLen /\ len(guess) # RequiredLen

\* The length guard: TRUE when evaluate_guess raises ValueError.
LengthGuardRaises(secret_number, guess) ==
    len(secret_number) # RequiredLen \/ len(guess) # RequiredLen

\* A variant of the loop body with "if" where the code has "elif": a digit
\* in the right place is counted as misplaced too.
LoopBody_IfForElif(secret_digits, secret_digit, guess_digit, counts) ==
    LET hit == IF secret_digit = guess_digit THEN 1 ELSE 0
        present == IF guess_digit \in set(secret_digits) THEN 1 ELSE 0
    IN  <<counts[1] + hit, counts[2] + present>>

\* One iteration of the for loop over zip(secret_digits, guess_digits):
\* counts is <<count_a, count_b>>.
LoopBody(secret_digits, secret_digit, guess_digit, counts) ==
    IF secret_digit = guess_digit
    THEN <<counts[1] + 1, counts[2]>>
    ELSE IF guess_digit \in set(secret_digits)
         THEN <<counts[1], counts[2] + 1>>
         ELSE counts

\* zip stops at the shorter of its arguments.
ZipLen(secret_digits, guess_digits) ==
    IF Len(secret_digits) <= Len(guess_digits)
    THEN Len(secret_digits)
    ELSE Len(guess_digits)

\* A variant of the loop that looks a misplaced digit up only in the part
\* of the secret not yet iterated over.
RECURSIVE ForLoop_RestOnly(_, _, _, _)
ForLoop_RestOnly(secret_digits, guess_digits, i, counts) ==
    IF i > ZipLen(secret_digits, guess_digits)
    THEN counts
    ELSE ForLoop_RestOnly(secret_digits, guess_digits, i + 1,
             LoopBody(SubSeq(secret_digits, i, Len(secret_digits)),
                      secret_digits[i], guess_digits[i], counts))

\* A variant of the loop that counts every digit out of place as misplaced,
\* present in the secret or not.
RECURSIVE ForLoop_NoLookup(_, _, _, _)
ForLoop_NoLookup(secret_digits, guess_digits, i, counts) ==
    IF i > ZipLen(secret_digits, guess_digits)
    THEN counts
    ELSE ForLoop_NoLookup(secret_digits, guess_digits, i + 1,
             IF secret_digits[i] = guess_digits[i]
             THEN <<counts[1] + 1, counts[2]>>
             ELSE <<counts[1], counts[2] + 1>>)

RECURSIVE ForLoop(_, _, _, _)
ForLoop(secret_digits, guess_digits, i, counts) ==
    IF i > ZipLen(secret_digits, guess_digits)
    THEN counts
    ELSE ForLoop(secret_digits, guess_digits, i + 1,
                 LoopBody(secret_digits, secret_digits[i], guess_digits[i], counts))

None == [kind |-> "none"]

Raise(exc) == [kind |-> "raise", exc |-> exc]

Return(counts) == [kind |-> "return", a |-> counts[1], b |-> counts[2]]

\* The outcome of one call: a ValueError or the pair (count_a, count_b).
evaluate_guess(secret_number, guess) ==
    IF LengthGuardRaises(secret_number, guess)
    THEN Raise("ValueError")
    ELSE Return(ForLoop(secret_number, guess, 1, <<0, 0>>))

(***************************************************************************)
(* The request and response models and the HTTP endpoints.                 *)
(***************************************************************************)

\* pattern=r"^\d{4}$"
PatternMatches(value) ==
    Len(value) = 4 /\ \A i \in 1..Len(value) : value[i] \in DecimalDigits

\* Field(..., min_length=4, max_length=4, pattern=r"^\d{4}$")
FieldValid(value) ==
    /\ len(value) >= FieldLen
    /\ len(value) <= FieldLen
    /\ PatternMatches(value)

\* A variant of the validator that accepts every value.
digits_must_be_unique_Off(value) == TRUE

\* The validator of GuessRequest: TRUE when it returns the value, FALSE when
\* it raises.
digits_must_be_unique(value) == Cardinality(set(value)) = len(value)

\* GuessRequest(secret=..., guess=...) is constructed without a validation
\* error.
GuessRequestValid(secret, guess) ==
    /\ FieldValid(secret) /\ digits_must_be_unique(secret)
    /\ FieldValid(guess) /\ digits_must_be_unique(guess)

\* SecretResponse(secret=...) is constructed without a validation error.
SecretResponseValid(secret) == FieldValid(secret)

\* GuessResponse(a=..., b=...): both fields are checked against ge=0, le=4.
GuessResponse(a, b) ==
    IF a >= 0 /\ a <= ScoreMax /\ b >= 0 /\ b <= ScoreMax
    THEN [status |-> 200, a |-> a, b |-> b]
    ELSE [status |-> 500, detail |-> "ResponseValidationError"]

\* A variant of the handler whose short-circuit passes the two counts in
\* the wrong order.
evaluate_guess_endpoint_Swapped(secret, guess) ==
    IF secret = guess
    THEN GuessResponse(0, 4)
    ELSE LET r == evaluate_guess(secret, guess)
         IN  IF r.kind = "raise"
             THEN [status |-> 400, detail |-> r.exc]
             ELSE GuessResponse(r.a, r.b)

\* The body of the POST /guess handler, given a constructed payload.
evaluate_guess_endpoint(secret, guess) ==
    IF secret = guess
    THEN GuessResponse(4, 0)
    ELSE LET r == evaluate_guess(secret, guess)
         IN  IF r.kind = "raise"
             THEN [status |-> 400, detail |-> r.exc]
             ELSE GuessResponse(r.a, r.b)

\* POST /guess: the payload is validated first; a payload that fails is
\* answered 422 and the handler does not run.
post_guess(secret, guess) ==
    IF GuessRequestValid(secret, guess)
    THEN evaluate_guess_endpoint(secret, guess)
    ELSE [status |-> 422, detail |-> "RequestValidationError"]

(***************************************************************************)
(* Bounds and the strings the callers submit.                              *)
(***************************************************************************)

\* Well-formed inputs use the first NumDigits decimal digits.
NumDigits == 5

BoundedDigitChars == {DigitChars[i] : i \in 1..NumDigits}

\* Every string of four distinct bounded digits.
WellFormedInputs ==
    {q \in [1..4 -> BoundedDigitChars] : \A i, j \in 1..4 : i # j => q[i] # q[j]}

BaseInput == <<"1", "2", "3", "4">>

ReplacementChars == {"1", "2", "a", "SUPERSCRIPT TWO", "ARABIC-INDIC DIGIT ONE"}

\* Strings one edit away from a well-formed one: a character replaced (by a
\* repeated digit, a letter, a non-ASCII digit), characters missing, a
\* character too many.
EditedInputs ==
    {[BaseInput EXCEPT ![i] = c] : i \in 1..4, c \in ReplacementChars}
    \cup {SubSeq(BaseInput, 1, n) : n \in 0..3}
    \cup {Append(BaseInput, c) : c \in ReplacementChars}

\* The strings of the documented scenarios.
ScenarioInputs ==
    { <<"1", "2", "3", "4">>, <<"1", "2", "4", "3">>, <<"5", "6", "7", "8">>,
      <<"4", "3", "2", "1">>, <<"0", "1", "2", "3">>, <<"1", "1", "2", "3">>,
      <<"1", "1", "1", "1">> }

Inputs == WellFormedInputs \cup EditedInputs \cup ScenarioInputs

(***************************************************************************)
(* State.                                                                  *)
(***************************************************************************)
VARIABLES
    payload,         \* the two strings a caller submits: [secret, guess]
    ret,             \* the outcome of evaluate_guess(payload.secret, payload.guess)
    response,        \* the answer of POST /guess to the payload
    generated,       \* the outcome of a call of generate_secret_number
    secret_response, \* the answer of GET /secret
    frames,          \* per caller, the frame of its call of evaluate_guess
    counters,        \* the cells holding count_a and count_b
    called_with,     \* per caller, the arguments it passed (history)
    game,            \* play_game: its position and its locals
    stdout,          \* play_game: the lines printed by its last step
    seen             \* play_game: what has happened so far (history)

scoreVars == <<payload, ret, response>>

secretVars == <<generated, secret_response>>

callVars == <<frames, counters, called_with>>

gameVars == <<game, stdout, seen>>

vars == <<scoreVars, secretVars, callVars, gameVars>>

NoPayload == [secret |-> <<>>, guess |-> <<>>]

ScoreIdle == payload = NoPayload /\ ret = None /\ response = None

SecretIdle == generated = None /\ secret_response = None

CallsIdle == frames = <<>> /\ counters = <<>> /\ called_with = <<>>

NotPlaying ==
    [pc |-> "start", secret_number |-> <<>>, attempts |-> 0, guess |-> <<>>, score |-> None]

NothingSeen ==
    [inputs |-> 0, valid |-> 0, equal |-> 0, calls |-> 0, congratulations |-> 0,
     secret0 |-> <<>>]

GameIdle == game = NotPlaying /\ stdout = <<>> /\ seen = NothingSeen

(***************************************************************************)
(* Spec: one pair of strings, scored by a direct call and over HTTP.       *)
(***************************************************************************)
Init ==
    /\ payload \in [secret : Inputs, guess : Inputs]
    /\ ret = None
    /\ response = None
    /\ SecretIdle /\ CallsIdle /\ GameIdle

\* A direct call of evaluate_guess with the two strings.
CallEvaluateGuess ==
    /\ ret = None
    /\ ret' = evaluate_guess(payload.secret, payload.guess)
    /\ UNCHANGED <<payload, response, secretVars, callVars, gameVars>>

\* POST /guess with the two strings as the payload.
PostGuess ==
    /\ response = None
    /\ response' = post_guess(payload.secret, payload.guess)
    /\ UNCHANGED <<payload, ret, secretVars, callVars, gameVars>>

Next == CallEvaluateGuess \/ PostGuess

Spec == Init /\ [][Next]_vars

(***************************************************************************)
(* SpecSecret: a secret is generated, by a direct call or by GET /secret,  *)
(* and the page that fetched it submits it to POST /guess.                 *)
(***************************************************************************)
ReturnStr(value) == [kind |-> "return", value |-> value]

\* SecretResponse(secret=...)
SecretResponse(secret) ==
    IF SecretResponseValid(secret)
    THEN [status |-> 200, secret |-> secret]
    ELSE [status |-> 500, detail |-> "ResponseValidationError"]

\* GET /secret
create_secret(secret) == SecretResponse(secret)

\* The test of the terminal loop: TRUE when the input is refused.
InputRejected(g) ==
    len(g) # TerminalLen \/ ~isdigit(g) \/ Cardinality(set(g)) # 4

InitSecret == ScoreIdle /\ SecretIdle /\ CallsIdle /\ GameIdle

\* A direct call of generate_secret_number.
GenerateSecretNumber ==
    /\ generated = None /\ secret_response = None
    /\ \E s \in generate_secret_number : generated' = ReturnStr(s)
    /\ UNCHANGED <<scoreVars, secret_response, callVars, gameVars>>

\* GET /secret: a fresh secret, wrapped in a SecretResponse.
CreateSecret ==
    /\ generated = None /\ secret_response = None
    /\ \E s \in generate_secret_number : secret_response' = create_secret(s)
    /\ UNCHANGED <<scoreVars, generated, callVars, gameVars>>

\* The secret fetched from GET /secret is sent to POST /guess, with itself
\* or with a fixed string as the guess.
SubmitSecret ==
    /\ secret_response # None /\ secret_response.status = 200
    /\ response = None
    /\ \E g \in {secret_response.secret, BaseInput} :
          /\ payload' = [secret |-> secret_response.secret, guess |-> g]
          /\ response' = post_guess(secret_response.secret, g)
    /\ UNCHANGED <<ret, secretVars, callVars, gameVars>>

NextSecret == GenerateSecretNumber \/ CreateSecret \/ SubmitSecret

SpecSecret == InitSecret /\ [][NextSecret]_vars

(***************************************************************************)
(* SpecCalls: several callers inside evaluate_guess at once, each call     *)
(* advancing one statement group at a time.                                *)
(***************************************************************************)

NumCallers == 2

Callers == 1..NumCallers

CallInputs ==
    { SubSeq(BaseInput, 1, 3), BaseInput, <<"4", "3", "2", "1">>, <<"1", "1", "1", "1">> }

\* A local name before its assignment, and after.
Unbound == [bound |-> FALSE]

Counts(a, b) == [bound |-> TRUE, count_a |-> a, count_b |-> b]

\* A variant in which the counts live in one module-level cell.
CounterCell_Shared(c) == 1

\* count_a and count_b are locals: each call has its own.
CounterCell(c) == c

NewFrame(secret_number, guess) ==
    [pc |-> "guard", secret_number |-> secret_number, guess |-> guess,
     secret_digits |-> <<>>, guess_digits |-> <<>>, i |-> 0, outcome |-> None]

InitCalls ==
    /\ ScoreIdle /\ SecretIdle /\ GameIdle
    /\ called_with \in [Callers -> [secret : CallInputs, guess : CallInputs]]
    /\ frames = [c \in Callers |-> NewFrame(called_with[c].secret, called_with[c].guess)]
    /\ counters = [c \in Callers |-> Unbound]

\* The length check, then either the raise or the assignments before the
\* loop.
Guard(c) ==
    /\ frames[c].pc = "guard"
    /\ IF LengthGuardRaises(frames[c].secret_number, frames[c].guess)
       THEN /\ frames' = [frames EXCEPT ![c].pc = "raised",
                                        ![c].outcome = Raise("ValueError")]
            /\ UNCHANGED counters
       ELSE /\ frames' = [frames EXCEPT ![c].pc = "loop",
                                        ![c].secret_digits = frames[c].secret_number,
                                        ![c].guess_digits = frames[c].guess,
                                        ![c].i = 1]
            /\ counters' = [counters EXCEPT ![CounterCell(c)] = Counts(0, 0)]
    /\ UNCHANGED <<scoreVars, secretVars, called_with, gameVars>>

\* One iteration of the for loop.
Iterate(c) ==
    /\ frames[c].pc = "loop"
    /\ frames[c].i <= ZipLen(frames[c].secret_digits, frames[c].guess_digits)
    /\ LET f == frames[c]
           cell == counters[CounterCell(c)]
           new == LoopBody(f.secret_digits, f.secret_digits[f.i], f.guess_digits[f.i],
                           <<cell.count_a, cell.count_b>>)
       IN  /\ counters' = [counters EXCEPT ![CounterCell(c)] = Counts(new[1], new[2])]
           /\ frames' = [frames EXCEPT ![c].i = f.i + 1]
    /\ UNCHANGED <<scoreVars, secretVars, called_with, gameVars>>

\* return count_a, count_b
ReturnCounts(c) ==
    /\ frames[c].pc = "loop"
    /\ frames[c].i > ZipLen(frames[c].secret_digits, frames[c].guess_digits)
    /\ LET cell == counters[CounterCell(c)]
       IN  frames' = [frames EXCEPT ![c].pc = "returned",
                                    ![c].outcome = Return(<<cell.count_a, cell.count_b>>)]
    /\ UNCHANGED <<scoreVars, secretVars, counters, called_with, gameVars>>

NextCalls == \E c \in Callers : Guard(c) \/ Iterate(c) \/ ReturnCounts(c)

SpecCalls == InitCalls /\ [][NextCalls]_vars

(***************************************************************************)
(* SpecGame: play_game, the terminal loop.                                 *)
(***************************************************************************)

\* The loop is followed for at most MaxInputs inputs.
MaxInputs == 3

\* The secrets followed: the scenario strings that generate_secret_number
\* can return.
GameSecrets == {s \in ScenarioInputs : s \in generate_secret_number}

\* What the player types: the scenario strings and the edited strings.
GameInputs == ScenarioInputs \cup EditedInputs

WelcomeLine == [line |-> "Welcome to the 1A2B game! ..."]

InvalidLine == [line |-> "Invalid input. Please enter four unique digits."]

ResultLine(a, b) == [line |-> "Result: {a}A{b}B", a |-> a, b |-> b]

CongratulationsLine(attempts) ==
    [line |-> "Congratulations! You guessed the secret number in {attempts} attempts.",
     attempts |-> attempts]

\* A variant that stops as soon as all four digits of the guess occur in the
\* secret.
Won_AllPresent(score) == score.a + score.b = WinningA

\* if a == 4
Won(score) == score.a = WinningA

\* A variant of the loop body that counts the attempt before it tests the
\* input.
play_game_iteration_CountFirst(st, g) ==
    IF InputRejected(g)
    THEN [game |-> [st EXCEPT !.guess = g, !.attempts = st.attempts + 1],
          stdout |-> <<InvalidLine>>, called |-> FALSE]
    ELSE LET r == evaluate_guess(st.secret_number, g)
         IN  IF r.kind = "raise"
             THEN [game |-> [st EXCEPT !.guess = g, !.attempts = st.attempts + 1,
                                       !.pc = "crashed"],
                   stdout |-> <<>>, called |-> TRUE]
             ELSE [game |-> [st EXCEPT !.guess = g, !.attempts = st.attempts + 1,
                                       !.score = r,
                                       !.pc = IF Won(r) THEN "done" ELSE "loop"],
                   stdout |-> <<ResultLine(r.a, r.b)>>
                              \o (IF Won(r)
                                  THEN <<CongratulationsLine(st.attempts + 1)>>
                                  ELSE <<>>),
                   called |-> TRUE]

\* One turn of the while loop with g the line read by input(): the locals
\* after it, the lines it prints, and whether it called evaluate_guess.
play_game_iteration(st, g) ==
    IF InputRejected(g)
    THEN [game |-> [st EXCEPT !.guess = g],
          stdout |-> <<InvalidLine>>, called |-> FALSE]
    ELSE LET r == evaluate_guess(st.secret_number, g)
         IN  IF r.kind = "raise"
             THEN [game |-> [st EXCEPT !.guess = g, !.attempts = st.attempts + 1,
                                       !.pc = "crashed"],
                   stdout |-> <<>>, called |-> TRUE]
             ELSE [game |-> [st EXCEPT !.guess = g, !.attempts = st.attempts + 1,
                                       !.score = r,
                                       !.pc = IF Won(r) THEN "done" ELSE "loop"],
                   stdout |-> <<ResultLine(r.a, r.b)>>
                              \o (IF Won(r)
                                  THEN <<CongratulationsLine(st.attempts + 1)>>
                                  ELSE <<>>),
                   called |-> TRUE]

\* For the history: an input of exactly four characters, all digits, all
\* four distinct.
FourDistinctDigitChars(g) ==
    /\ Len(g) = 4
    /\ \A i \in 1..Len(g) : g[i] \in Digits
    /\ \A i, j \in 1..Len(g) : i # j => g[i] # g[j]

Count(cond) == IF cond THEN 1 ELSE 0

InitGame == ScoreIdle /\ SecretIdle /\ CallsIdle /\ GameIdle

\* The statements before the loop: the secret is generated, the counter is
\* set to 0 and the welcome is printed.
StartGame ==
    /\ game.pc = "start"
    /\ \E s \in GameSecrets :
          /\ game' = [game EXCEPT !.pc = "loop", !.secret_number = s, !.attempts = 0]
          /\ seen' = [seen EXCEPT !.secret0 = s]
    /\ stdout' = <<WelcomeLine>>
    /\ UNCHANGED <<scoreVars, secretVars, callVars>>

\* One turn of the loop, from the prompt to the continue, the break or the
\* end of the body.
Turn ==
    /\ game.pc = "loop"
    /\ seen.inputs < MaxInputs
    /\ \E g \in GameInputs :
          LET after == play_game_iteration(game, g)
          IN  /\ game' = after.game
              /\ stdout' = after.stdout
              /\ seen' = [seen EXCEPT
                    !.inputs = @ + 1,
                    !.valid = @ + Count(FourDistinctDigitChars(g)),
                    !.equal = @ + Count(g = game.secret_number),
                    !.calls = @ + Count(after.called),
                    !.congratulations =
                        @ + Cardinality({k \in 1..Len(after.stdout) :
                               after.stdout[k] = CongratulationsLine(after.game.attempts)})]
    /\ UNCHANGED <<scoreVars, secretVars, callVars>>

NextGame == StartGame \/ Turn

SpecGame == InitGame /\ [][NextGame]_vars

(***************************************************************************)
(* Properties of Spec.                                                     *)
(***************************************************************************)

\* A string of exactly four decimal digits, no digit repeated.
FourUniqueDigits(s) ==
    /\ Len(s) = 4
    /\ \A i \in 1..Len(s) : s[i] \in DecimalDigits
    /\ \A i, j \in 1..Len(s) : i # j => s[i] # s[j]

BothFourUniqueDigits == FourUniqueDigits(payload.secret) /\ FourUniqueDigits(payload.guess)

Str4(c1, c2, c3, c4) == <<c1, c2, c3, c4>>

PayloadIs(secret, guess) == payload = [secret |-> secret, guess |-> guess]

\* C1: for a secret and a guess of four unique decimal digits each,
\* evaluate_guess returns (A, B) with 0 <= A <= 4, 0 <= B <= 4 and
\* A + B <= 4, and the endpoint's response carries counts in the same range.
C1_ScoreWithinBounds ==
    BothFourUniqueDigits =>
        /\ ret # None =>
              /\ ret.kind = "return"
              /\ 0 <= ret.a /\ ret.a <= 4
              /\ 0 <= ret.b /\ ret.b <= 4
              /\ ret.a + ret.b <= 4
        /\ response # None =>
              /\ response.status = 200
              /\ 0 <= response.a /\ response.a <= 4
              /\ 0 <= response.b /\ response.b <= 4
              /\ response.a + response.b <= 4

\* A valid pair scored (1, 3): the sum reaches its bound.
C1_Witness ==
    /\ BothFourUniqueDigits
    /\ ret.kind = "return" /\ ret.a = 1 /\ ret.b = 3
    /\ response # None /\ response.status = 200

\* The reference score: the positions that agree, and the common digits
\* that are not at an agreeing position.
ReferenceA(s, g) == Cardinality({i \in 1..4 : s[i] = g[i]})

ReferenceB(s, g) == Cardinality(set(s) \cap set(g)) - ReferenceA(s, g)

\* C2: for valid S and G, evaluate_guess returns the reference score: A the
\* number of agreeing positions, B the number of common digits minus A; and
\* ("1234","1243") gives (2,2), ("1234","5678") gives (0,0), ("1234","4321")
\* gives (0,4).
C2_ReferenceScore ==
    ret # None =>
        /\ BothFourUniqueDigits =>
              /\ ret.kind = "return"
              /\ ret.a = ReferenceA(payload.secret, payload.guess)
              /\ ret.b = ReferenceB(payload.secret, payload.guess)
        /\ PayloadIs(Str4("1", "2", "3", "4"), Str4("1", "2", "4", "3"))
              => ret = Return(<<2, 2>>)
        /\ PayloadIs(Str4("1", "2", "3", "4"), Str4("5", "6", "7", "8"))
              => ret = Return(<<0, 0>>)
        /\ PayloadIs(Str4("1", "2", "3", "4"), Str4("4", "3", "2", "1"))
              => ret = Return(<<0, 4>>)

\* The third scenario has been scored.
C2_Witness ==
    /\ PayloadIs(Str4("1", "2", "3", "4"), Str4("4", "3", "2", "1"))
    /\ ret = Return(<<0, 4>>)

\* C3: a valid S scored against itself yields (4, 0) through evaluate_guess
\* and through POST /guess, and the endpoint's short-circuit answers what
\* the positional scan returns.
C3_SelfScore ==
    (BothFourUniqueDigits /\ payload.secret = payload.guess) =>
        /\ ret # None => ret = Return(<<4, 0>>)
        /\ response # None => response = [status |-> 200, a |-> 4, b |-> 0]
        /\ (ret # None /\ response # None) =>
              /\ ret.kind = "return" /\ response.status = 200
              /\ response.a = ret.a /\ response.b = ret.b

\* A valid string has been scored against itself both ways.
C3_Witness ==
    /\ BothFourUniqueDigits
    /\ payload.secret = payload.guess
    /\ ret # None
    /\ response # None

C10_Symmetric ==
    ret # None =>
        /\ BothFourUniqueDigits => ret = evaluate_guess(payload.guess, payload.secret)
        /\ PayloadIs(Str4("1", "2", "3", "4"), Str4("1", "1", "1", "1")) =>
              /\ ret.kind = "return" /\ ret.b = 3
              /\ evaluate_guess(payload.guess, payload.secret).b = 0

\* Two different valid strings with a lopsided score have been scored.
C10_Witness ==
    /\ BothFourUniqueDigits
    /\ payload.secret # payload.guess
    /\ ret = Return(<<2, 1>>)

(***************************************************************************)
(* Properties of SpecSecret.                                               *)
(***************************************************************************)

\* Exactly four characters, each one of '0'..'9', all distinct.
FourDistinctAsciiDigits(s) ==
    /\ Len(s) = 4
    /\ \A i \in 1..Len(s) : s[i] \in {"0", "1", "2", "3", "4", "5", "6", "7", "8", "9"}
    /\ Cardinality({s[i] : i \in 1..Len(s)}) = 4

\* C4: every value generate_secret_number returns is a string of exactly 4
\* characters, each a decimal digit '0'-'9', all distinct; so it is a valid
\* field of GuessRequest and of SecretResponse and is accepted by the
\* terminal input check: GET /secret answers it, and POST /guess scores it.
C4_GeneratedSecretShape ==
    /\ generated # None =>
          /\ FourDistinctAsciiDigits(generated.value)
          /\ FieldValid(generated.value)
          /\ digits_must_be_unique(generated.value)
          /\ SecretResponseValid(generated.value)
          /\ ~InputRejected(generated.value)
    /\ secret_response # None =>
          /\ secret_response.status = 200
          /\ FourDistinctAsciiDigits(secret_response.secret)
          /\ ~InputRejected(secret_response.secret)
    /\ (secret_response # None /\ response # None) => response.status = 200

\* A secret with a leading zero was fetched and passed the POST /guess
\* validation.
C4_Witness ==
    /\ secret_response # None
    /\ secret_response.secret[1] = "0"
    /\ response # None /\ response.status = 200

(***************************************************************************)
(* Properties of SpecCalls.                                                *)
(***************************************************************************)

Finished(c) == frames[c].pc \in {"returned", "raised"}

\* C8: evaluate_guess raises the length failure exactly when the secret or
\* the guess does not have length 4, and then before any count exists; with
\* two strings of length 4, repeated digits or not, it raises nothing and
\* what it returns is a score.
C8_LengthGuard ==
    \A c \in Callers :
        /\ frames[c].pc = "raised" =>
              /\ Len(frames[c].secret_number) # 4 \/ Len(frames[c].guess) # 4
              /\ frames[c].outcome = Raise("ValueError")
              /\ counters[c] = Unbound
              /\ frames[c].i = 0
        /\ frames[c].pc \in {"loop", "returned"} =>
              /\ Len(frames[c].secret_number) = 4 /\ Len(frames[c].guess) = 4
              /\ counters[c] # Unbound
        /\ frames[c].pc = "returned" =>
              /\ frames[c].outcome.kind = "return"
              /\ frames[c].outcome.a \in 0..4
              /\ frames[c].outcome.b \in 0..4

\* One call has returned a score for a guess with a repeated digit, another
\* has raised.
C8_Witness ==
    /\ frames[1].pc = "returned"
    /\ frames[1].guess = <<"1", "1", "1", "1">>
    /\ frames[1].outcome = Return(<<1, 3>>)
    /\ frames[2].pc = "raised"

\* C9: evaluate_guess is deterministic and stateless: in every interleaving
\* of calls each finished call has the outcome the same arguments give in
\* isolation, two calls with equal arguments have equal outcomes, and no
\* call changes its arguments.
C9_Deterministic ==
    /\ \A c \in Callers :
          /\ frames[c].secret_number = called_with[c].secret
          /\ frames[c].guess = called_with[c].guess
          /\ Finished(c) =>
                frames[c].outcome = evaluate_guess(called_with[c].secret, called_with[c].guess)
    /\ \A c, d \in Callers :
          (Finished(c) /\ Finished(d) /\ called_with[c] = called_with[d])
              => frames[c].outcome = frames[d].outcome

\* One call has returned while another, with other arguments, is in the
\* middle of its loop.
C9_Witness ==
    /\ frames[1].pc = "returned"
    /\ frames[2].pc = "loop" /\ frames[2].i = 3
    /\ called_with[1] # called_with[2]
    /\ frames[1].outcome = Return(<<0, 4>>)

(***************************************************************************)
(* Properties of SpecGame.                                                 *)
(***************************************************************************)

LastInputValid == seen.inputs > 0 /\ FourDistinctDigitChars(game.guess)

LastInputInvalid == seen.inputs > 0 /\ ~FourDistinctDigitChars(game.guess)

C7_EndsAtFirstMatch ==
    game.pc # "start" =>
        /\ game.pc = "done" <=> seen.equal > 0
        /\ seen.equal <= 1
        /\ seen.congratulations = Count(game.pc = "done")
        /\ game.pc = "done" =>
              /\ game.guess = game.secret_number
              /\ game.score = Return(<<4, 0>>)
              /\ stdout = <<ResultLine(4, 0), CongratulationsLine(seen.valid)>>
        /\ LastInputValid => (game.score.a = 4 <=> game.guess = game.secret_number)
        /\ game.secret_number = seen.secret0

\* The game was won at the third input, one of the earlier two invalid.
C7_Witness ==
    /\ game.pc = "done"
    /\ seen.inputs = 3
    /\ game.attempts = 2
====
